---- MODULE Spec2Model ----
(***************************************************************************)
(* lil-http: the message model (http/request.rs, http/response.rs), the    *)
(* byte-level request parser, the router and the per-connection loop of    *)
(* the server, as one state machine.                                       *)
(*                                                                         *)
(* A String or a byte slice is a sequence of character codes.  A HashMap   *)
(* with String keys is a function whose domain is a set of such sequences; *)
(* where the code observes a HashMap's iteration order (Router::handle,    *)
(* Response::to_string) the order is a nondeterministic input.             *)
(***************************************************************************)
EXTENDS Integers, Sequences, FiniteSets, TLC

VARIABLES
    routes,      \* Router.routes, as the sequence of its entries in iteration order
    regs,        \* how many registrations have been made
    latest,      \* history: (path, method) -> handler of the last registration naming it
    request,     \* the Request last given to Router::handle (NoRequest before)
    response,    \* the Response Router::handle returned for it
    invoked,     \* the handlers Router::handle called for it, in order
    listener,    \* the state of Server::run's accept loop
    acceptErrs,  \* how many accepts have failed
    conns,       \* one record per connection: the task of handle_connection and its socket
    sends,       \* how many chunks clients have sent, over all connections
    buf,         \* the buffer given to Request::try_from (parser specification)
    parsed       \* what Request::try_from made of buf

vars == <<routes, regs, latest, request, response, invoked, listener, acceptErrs, conns, sends, buf, parsed>>

routerVars == <<routes, regs, latest, request, response, invoked>>
serverVars == <<listener, acceptErrs, conns, sends>>
parserVars == <<buf, parsed>>

----------------------------------------------------------------------------
(* Bytes and strings                                                       *)

NUL == 0
TAB == 9
LF == 10
CR == 13
SP == 32
QUOTE == 34
AMP == 38
COMMA == 44
DIGIT0 == 48
COLON == 58
EQUALS == 61
QMARK == 63
BACKSLASH == 92
LBRACE == 123
RBRACE == 125

\* U+FFFD, what from_utf8_lossy puts for a byte that is not valid UTF-8
REPLACEMENT == 65533

\* "\r\n"
CRLF == <<13, 10>>

\* char::is_whitespace on the ASCII range: what str::trim removes
is_whitespace(c) == c \in {TAB, LF, 11, 12, CR, SP}

\* String::from_utf8_lossy.  Exact on ASCII; a byte >= 128 becomes U+FFFD (the
\* inputs of the model hold no valid multi-byte sequence).
from_utf8_lossy(bytes) == [i \in 1..Len(bytes) |-> IF bytes[i] < 128 THEN bytes[i] ELSE REPLACEMENT]

\* str::trim
trim(s) ==
    LET keep == {i \in 1..Len(s) : ~is_whitespace(s[i])}
    IN  IF keep = {} THEN <<>>
        ELSE LET a == CHOOSE i \in keep : \A j \in keep : i <= j
                 b == CHOOSE i \in keep : \A j \in keep : j <= i
             IN  SubSeq(s, a, b)

\* slice::split / str::split on one separator: n separators give n + 1 pieces
RECURSIVE split(_, _)
split(s, sep) ==
    LET at == {i \in 1..Len(s) : s[i] = sep}
    IN  IF at = {} THEN <<s>>
        ELSE LET i == CHOOSE k \in at : \A j \in at : k <= j
             IN  <<SubSeq(s, 1, i - 1)>> \o split(SubSeq(s, i + 1, Len(s)), sep)

\* splitn(2, sep): split at the first separator only
splitn2(s, sep) ==
    LET at == {i \in 1..Len(s) : s[i] = sep}
    IN  IF at = {} THEN <<s>>
        ELSE LET i == CHOOSE k \in at : \A j \in at : k <= j
             IN  <<SubSeq(s, 1, i - 1), SubSeq(s, i + 1, Len(s))>>

\* the order of String: lexicographic by character code
StrLess(a, b) ==
    \E i \in 1..(Len(a) + 1) :
        /\ \A j \in 1..(i - 1) : j <= Len(b) /\ a[j] = b[j]
        /\ i <= Len(b)
        /\ (i > Len(a) \/ a[i] < b[i])

\* Vec<String>::sort
RECURSIVE sort(_)
sort(v) ==
    IF v = <<>> THEN <<>>
    ELSE LET rest == sort(Tail(v))
             k == Cardinality({i \in 1..Len(rest) : ~StrLess(Head(v), rest[i])})
         IN  SubSeq(rest, 1, k) \o <<Head(v)>> \o SubSeq(rest, k + 1, Len(rest))

\* [String]::join
RECURSIVE join(_, _)
join(v, sep) ==
    IF v = <<>> THEN <<>>
    ELSE IF Len(v) = 1 THEN v[1]
    ELSE v[1] \o sep \o join(Tail(v), sep)

\* usize's Display
RECURSIVE usize_to_string(_)
usize_to_string(n) ==
    IF n < 10 THEN <<DIGIT0 + n>>
    ELSE usize_to_string(n \div 10) \o <<DIGIT0 + (n % 10)>>

IsDigit(c) == c >= DIGIT0 /\ c <= DIGIT0 + 9

RECURSIVE DigitsValue(_)
DigitsValue(s) ==
    IF s = <<>> THEN 0
    ELSE 10 * DigitsValue(SubSeq(s, 1, Len(s) - 1)) + (s[Len(s)] - DIGIT0)

\* str::parse::<usize>: digits, with an optional leading '+'; -1 stands for Err.
\* (A value above usize::MAX is an Err too; the inputs of the model stay far below.)
parse_usize(s) ==
    LET d == IF s # <<>> /\ s[1] = 43 THEN Tail(s) ELSE s
    IN  IF d = <<>> \/ \E i \in 1..Len(d) : ~IsDigit(d[i]) THEN -1
        ELSE DigitsValue(d)

\* HashMap::new, HashMap::insert (the later value of a key replaces the earlier)
EmptyMap == [k \in {} |-> <<>>]

insert(m, k, v) == [x \in DOMAIN m \cup {k} |-> IF x = k THEN v ELSE m[x]]

\* Option
None == [some |-> FALSE]

Some(x) == [some |-> TRUE, value |-> x]

\* HashMap::get
get(m, k) == IF k \in DOMAIN m THEN Some(m[k]) ELSE None

\* every order in which the keys of a HashMap can be iterated
Orders(m) ==
    LET n == Cardinality(DOMAIN m)
    IN  {o \in [1..n -> DOMAIN m] : \A i, j \in 1..n : o[i] = o[j] => i = j}

----------------------------------------------------------------------------
(* http/request.rs: Method, Body and serde_json's Value                    *)

Method == {"Head", "Get", "Post", "Put", "Delete"}

\* impl Display for Method
method_to_string(m) ==
    CASE m = "Head" -> <<72, 69, 65, 68>>
      [] m = "Get" -> <<71, 69, 84>>
      [] m = "Post" -> <<80, 79, 83, 84>>
      [] m = "Put" -> <<80, 85, 84>>
      [] m = "Delete" -> <<68, 69, 76, 69, 84, 69>>

\* impl From<String> for Method: Some(method), or None where the code reaches todo!()
method_from(val) ==
    IF \E m \in Method : method_to_string(m) = val
    THEN Some(CHOOSE m \in Method : method_to_string(m) = val)
    ELSE None

(* serde_json::Value.  The model reads and writes strings without escapes, *)
(* unsigned integers, true, false, null and objects; arrays, escapes,      *)
(* signs, fractions and exponents do not occur in its inputs.              *)
JString(s) == [t |-> "String", s |-> s]

JNumber(n) == [t |-> "Number", n |-> n]

JBool(b) == [t |-> "Bool", b |-> b]

JNull == [t |-> "Null"]

JObject(m) == [t |-> "Object", m |-> m]

NoValue == [ok |-> FALSE]

\* the whitespace JSON allows between tokens
json_ws(c) == c \in {SP, TAB, LF, CR}

\* the first position >= p of s that holds no JSON whitespace
skip_ws(s, p) ==
    LET at == {i \in p..Len(s) : ~json_ws(s[i])}
    IN  IF at = {} THEN Len(s) + 1 ELSE CHOOSE i \in at : \A j \in at : i <= j

HasAt(s, p, lit) == p + Len(lit) - 1 <= Len(s) /\ SubSeq(s, p, p + Len(lit) - 1) = lit

\* a string token starting at p: [ok, v (its characters), p (the position after it)]
json_string(s, p) ==
    IF p > Len(s) \/ s[p] # QUOTE THEN NoValue
    ELSE LET close == {i \in (p + 1)..Len(s) : s[i] = QUOTE}
         IN  IF close = {} THEN NoValue
             ELSE LET q == CHOOSE i \in close : \A j \in close : i <= j
                      chars == SubSeq(s, p + 1, q - 1)
                  IN  IF \E i \in 1..Len(chars) : chars[i] < SP THEN NoValue
                      ELSE [ok |-> TRUE, v |-> chars, p |-> q + 1]

\* a number token starting at p
json_number(s, p) ==
    LET stop == {i \in p..(Len(s) + 1) : i > Len(s) \/ ~IsDigit(s[i])}
        q == CHOOSE i \in stop : \A j \in stop : i <= j
        digits == SubSeq(s, p, q - 1)
    IN  IF digits = <<>> \/ (Len(digits) > 1 /\ digits[1] = DIGIT0) THEN NoValue
        ELSE [ok |-> TRUE, v |-> JNumber(DigitsValue(digits)), p |-> q]

\* one value starting at p, and the members of an object after its '{' or a ','.
\* (Each step takes what the step before it read as a parameter.)
RECURSIVE json_value(_, _), json_members(_, _, _), member_colon(_, _, _), member_value(_, _, _, _)
RECURSIVE member_end(_, _, _, _), member_next(_, _, _)
string_value(r) == IF r.ok THEN [ok |-> TRUE, v |-> JString(r.v), p |-> r.p] ELSE NoValue

object_open(s, q) ==
    IF q <= Len(s) /\ s[q] = RBRACE
    THEN [ok |-> TRUE, v |-> JObject(EmptyMap), p |-> q + 1]
    ELSE json_members(s, q, EmptyMap)

json_value(s, p) ==
    IF p > Len(s) THEN NoValue
    ELSE IF s[p] = QUOTE THEN string_value(json_string(s, p))
    ELSE IF IsDigit(s[p]) THEN json_number(s, p)
    ELSE IF HasAt(s, p, <<116, 114, 117, 101>>) THEN [ok |-> TRUE, v |-> JBool(TRUE), p |-> p + 4]
    ELSE IF HasAt(s, p, <<102, 97, 108, 115, 101>>) THEN [ok |-> TRUE, v |-> JBool(FALSE), p |-> p + 5]
    ELSE IF HasAt(s, p, <<110, 117, 108, 108>>) THEN [ok |-> TRUE, v |-> JNull, p |-> p + 4]
    ELSE IF s[p] = LBRACE THEN object_open(s, skip_ws(s, p + 1))
    ELSE NoValue

\* a member: its key ...
json_members(s, p, m) == member_colon(s, m, json_string(s, p))

\* ... the ':' after the key ...
member_colon(s, m, key) ==
    IF ~key.ok THEN NoValue ELSE member_value(s, m, key.v, skip_ws(s, key.p))

\* ... its value ...
member_value(s, m, k, c) ==
    IF c > Len(s) \/ s[c] # COLON THEN NoValue
    ELSE member_end(s, m, k, json_value(s, skip_ws(s, c + 1)))

\* ... and the ',' or the '}' after it
member_end(s, m, k, val) ==
    IF ~val.ok THEN NoValue ELSE member_next(s, insert(m, k, val.v), skip_ws(s, val.p))

member_next(s, m, e) ==
    IF e > Len(s) THEN NoValue
    ELSE IF s[e] = RBRACE THEN [ok |-> TRUE, v |-> JObject(m), p |-> e + 1]
    ELSE IF s[e] = COMMA THEN json_members(s, skip_ws(s, e + 1), m)
    ELSE NoValue

\* serde_json::from_str: Some(value), or None for an Err (trailing characters included)
from_str_end(s, r) == IF r.ok /\ skip_ws(s, r.p) > Len(s) THEN Some(r.v) ELSE None

from_str(s) == from_str_end(s, json_value(s, skip_ws(s, 1)))

\* a string as Display for Value writes it: '"' and '\' escaped (the strings of
\* the model hold no control character)
RECURSIVE escape(_)
escape(s) ==
    IF s = <<>> THEN <<>>
    ELSE (IF s[1] \in {QUOTE, BACKSLASH} THEN <<BACKSLASH, s[1]>> ELSE <<s[1]>>) \o escape(Tail(s))

\* impl Display for Value: the compact form, an object's keys in the order of its BTreeMap
RECURSIVE value_to_string(_), members_to_string(_, _)
value_to_string(v) ==
    CASE v.t = "String" -> <<QUOTE>> \o escape(v.s) \o <<QUOTE>>
      [] v.t = "Number" -> usize_to_string(v.n)
      [] v.t = "Bool" -> IF v.b THEN <<116, 114, 117, 101>> ELSE <<102, 97, 108, 115, 101>>
      [] v.t = "Null" -> <<110, 117, 108, 108>>
      [] v.t = "Object" ->
            <<LBRACE>> \o members_to_string(v.m, sort(CHOOSE o \in Orders(v.m) : TRUE)) \o <<RBRACE>>

members_to_string(m, keys) ==
    IF keys = <<>> THEN <<>>
    ELSE <<QUOTE>> \o escape(keys[1]) \o <<QUOTE, COLON>> \o value_to_string(m[keys[1]])
         \o (IF Len(keys) > 1 THEN <<COMMA>> ELSE <<>>)
         \o members_to_string(m, Tail(keys))

\* Value::get: a member of an object, None for any other value or a missing key
value_get(v, key) == IF v.t = "Object" THEN get(v.m, key) ELSE None

\* enum Body
BodyNone == [tag |-> "None"]

BodyText(s) == [tag |-> "Text", text |-> s]

BodyJson(v) == [tag |-> "Json", json |-> v]

\* Body::parse: Some(body), or None where serde_json::from_str(..).unwrap() panics
unwrap_json(v) == IF v.some THEN Some(BodyJson(v.value)) ELSE None

Body_parse(body, content_type) ==
    IF content_type.some /\ content_type.value = <<97, 112, 112, 108, 105, 99, 97, 116, 105, 111, 110, 47, 106, 115, 111, 110>>
    THEN unwrap_json(from_str(body))
    ELSE Some(BodyText(body))

\* impl Display for Body
body_to_string(b) ==
    CASE b.tag = "None" -> <<>>
      [] b.tag = "Text" -> b.text
      [] b.tag = "Json" -> value_to_string(b.json)

----------------------------------------------------------------------------
(* http/response.rs                                                        *)

StatusCode == {"Ok", "NotFound", "BadRequest", "MethodNotAllowed"}

\* impl Display for StatusCode
status_to_string(code) ==
    CASE code = "Ok" -> <<50, 48, 48, 32, 79, 75>>
      [] code = "NotFound" -> <<52, 48, 52, 32, 78, 111, 116, 32, 70, 111, 117, 110, 100>>
      [] code = "BadRequest" -> <<52, 48, 48, 32, 66, 97, 100, 32, 82, 101, 113, 117, 101, 115, 116>>
      [] code = "MethodNotAllowed" -> <<52, 48, 53, 32, 77, 101, 116, 104, 111, 100, 32, 78, 111, 116, 32, 65, 108, 108, 111, 119, 101, 100>>

\* Response::ok
ok == [status_code |-> "Ok", headers |-> EmptyMap, body |-> BodyNone]

\* Response::status, Response::header, Response::body
status(r, code) == [r EXCEPT !.status_code = code]

header(r, name, value) == [r EXCEPT !.headers = insert(r.headers, name, value)]

body(r, b) == [r EXCEPT !.body = b]

\* Response::text
text(s) == body(header(ok, <<67, 111, 110, 116, 101, 110, 116, 45, 84, 121, 112, 101>>, <<116, 101, 120, 116, 47, 112, 108, 97, 105, 110>>), BodyText(s))

\* Response::json
json(v) == body(header(ok, <<67, 111, 110, 116, 101, 110, 116, 45, 84, 121, 112, 101>>, <<97, 112, 112, 108, 105, 99, 97, 116, 105, 111, 110, 47, 106, 115, 111, 110>>), BodyJson(v))

\* Response::not_found without the call of status: the 200 of text is left
not_found_status_unset == text(<<78, 111, 116, 32, 70, 111, 117, 110, 100>>)

\* Response::not_found
not_found == status(text(<<78, 111, 116, 32, 70, 111, 117, 110, 100>>), "NotFound")

\* Response::invalid_request
invalid_request == status(text(<<73, 110, 118, 97, 108, 105, 100, 32, 82, 101, 113, 117, 101, 115, 116>>), "BadRequest")

\* Response::method_not_allowed
method_not_allowed(methods) ==
    LET names == sort([i \in 1..Len(methods) |-> method_to_string(methods[i])])
    IN  header(status(text(<<77, 101, 116, 104, 111, 100, 32, 78, 111, 116, 32, 65, 108, 108, 111, 119, 101, 100>>), "MethodNotAllowed"), <<65, 108, 108, 111, 119>>, join(names, <<44, 32>>))

\* the header lines of a response, its headers taken in the order `order`
RECURSIVE header_lines(_, _)
header_lines(headers, order) ==
    IF order = <<>> THEN <<>>
    ELSE order[1] \o <<COLON, SP>> \o headers[order[1]] \o CRLF \o header_lines(headers, Tail(order))

\* impl ToString for Response with the push of the body (line 244) left out
to_string_without_body(r, order) ==
    <<72, 84, 84, 80, 47, 49, 46, 49, 32>> \o status_to_string(r.status_code) \o CRLF \o header_lines(r.headers, order) \o CRLF

\* impl ToString for Response, iterating the headers in the order `order`
to_string(r, order) ==
    <<72, 84, 84, 80, 47, 49, 46, 49, 32>> \o status_to_string(r.status_code) \o CRLF
    \o header_lines(r.headers, order) \o CRLF \o body_to_string(r.body)

----------------------------------------------------------------------------
(* http/request.rs: impl TryFrom<&[u8; 1024]> for Request                  *)

\* the capacity of the buffer of one read
BufSize == 1024

\* let mut buf = [0; 1024]; one read puts `data` at its start
Buffer(data) == [i \in 1..BufSize |-> IF i <= Len(data) THEN data[i] ELSE NUL]

\* the three outcomes of try_from: a Request, the Err, or a panic (at a line of request.rs)
Parsed(req) == [tag |-> "Ok", request |-> req]

EmptyRequest == [tag |-> "Err", error |-> "Empty request"]

Panic(line) == [tag |-> "Panic", line |-> line]

\* the closure of lines 145-157: the query string to a map; None where pair.next().unwrap() panics
RECURSIVE collect_query(_, _)
collect_query(pairs, m) ==
    IF pairs = <<>> THEN Some(m)
    ELSE LET pair == split(pairs[1], EQUALS)
         IN  IF Len(pair) < 2 THEN None
             ELSE collect_query(Tail(pairs), insert(m, trim(pair[1]), trim(pair[2])))

parse_query(query) == collect_query(split(trim(query), AMP), EmptyMap)

\* the loop of lines 159-173 from line i on: the headers and buff_read at its end;
\* ok is FALSE where header.next().unwrap() panics on a line without ':'
RECURSIVE header_loop(_, _, _, _)
header_loop(lines, i, headers, buff_read) ==
    IF i > Len(lines) \/ lines[i] = <<CR>>
    THEN [ok |-> TRUE, headers |-> headers, buff_read |-> buff_read]
    ELSE LET h == splitn2(lines[i], COLON)
         IN  IF Len(h) < 2 THEN [ok |-> FALSE]
             ELSE header_loop(lines, i + 1,
                              insert(headers, trim(from_utf8_lossy(h[1])), trim(from_utf8_lossy(h[2]))),
                              buff_read + Len(lines[i]) + 1)

\* the offset of the body with 1 where the code has 2: the '\r' of the blank line
\* is counted, its '\n' is not
buff_read_start_off_by_one(request_line) == 1 + Len(request_line) + 1

\* the offset of the body: 2, the request line and its '\n', each header line and its '\n'
buff_read_start(request_line) == 2 + Len(request_line) + 1

\* lines 175-184: the body of a request whose headers are known
body_or_panic(got) == IF got.some THEN Parsed(got.value) ELSE Panic(74)

\* lines 175-184 with the name of the header looked up in lower case as well
read_body_any_case(b, headers, buff_read) ==
    LET name == IF <<67, 111, 110, 116, 101, 110, 116, 45, 76, 101, 110, 103, 116, 104>> \in DOMAIN headers THEN <<67, 111, 110, 116, 101, 110, 116, 45, 76, 101, 110, 103, 116, 104>> ELSE <<99, 111, 110, 116, 101, 110, 116, 45, 108, 101, 110, 103, 116, 104>>
    IN  IF name \notin DOMAIN headers THEN Parsed(BodyNone)
        ELSE LET content_length == parse_usize(headers[name])
             IN  IF content_length < 0 THEN Panic(176)
                 ELSE IF buff_read + content_length > Len(b) THEN Panic(179)
                 ELSE body_or_panic(Body_parse(trim(from_utf8_lossy(SubSeq(b, buff_read + 1, buff_read + content_length))),
                                               get(headers, <<67, 111, 110, 116, 101, 110, 116, 45, 84, 121, 112, 101>>)))

read_body(b, headers, buff_read) ==
    IF <<67, 111, 110, 116, 101, 110, 116, 45, 76, 101, 110, 103, 116, 104>> \notin DOMAIN headers THEN Parsed(BodyNone)
    ELSE LET content_length == parse_usize(headers[<<67, 111, 110, 116, 101, 110, 116, 45, 76, 101, 110, 103, 116, 104>>])
         IN  IF content_length < 0 THEN Panic(176)
             ELSE IF buff_read + content_length > Len(b) THEN Panic(179)
             ELSE body_or_panic(Body_parse(trim(from_utf8_lossy(SubSeq(b, buff_read + 1, buff_read + content_length))),
                                           get(headers, <<67, 111, 110, 116, 101, 110, 116, 45, 84, 121, 112, 101>>)))

\* lines 186-192
with_body(method, path, query, headers, got) ==
    IF got.tag # "Ok" THEN got
    ELSE Parsed([method |-> method, path |-> path, query |-> query, headers |-> headers,
                 body |-> got.request])

\* lines 159-184, the headers read
with_headers(b, method, path, query, h) ==
    IF ~h.ok THEN Panic(166)
    ELSE with_body(method, path, query, h.headers, read_body(b, h.headers, h.buff_read))

\* lines 145-157, the query read
with_query(b, lines, method, path, query) ==
    IF ~query.some THEN Panic(152)
    ELSE with_headers(b, method, path, query.value,
                      header_loop(lines, 2, EmptyMap, buff_read_start(lines[1])))

try_from(b) ==
    IF b[1] = NUL THEN EmptyRequest
    ELSE LET lines == split(b, LF)
             request_line == split(lines[1], SP)
             method == method_from(from_utf8_lossy(request_line[1]))
         IN  IF ~method.some THEN Panic(36)
             ELSE IF Len(request_line) < 2 THEN Panic(140)
             ELSE LET uri == splitn2(from_utf8_lossy(request_line[2]), QMARK)
                  IN  with_query(b, lines, method.value, trim(uri[1]),
                                 IF Len(uri) = 2 THEN parse_query(uri[2]) ELSE Some(EmptyMap))

----------------------------------------------------------------------------
(* router.rs                                                               *)

\* The handlers of the repository's tests and of main.rs; a handler is a function
\* of the Request.
Handlers == {"test_response", "blank", "root", "user", "hello"}

\* main.rs, line 22: the name of the query, or "World"
unwrap_or(opt, default) == IF opt.some THEN opt.value ELSE default

\* main.rs, lines 35-49: the handler of POST /api/hello
hello(req) ==
    IF req.body.tag # "Json" THEN invalid_request
    ELSE LET name == value_get(req.body.json, <<110, 97, 109, 101>>)
         IN  IF ~name.some THEN invalid_request
             ELSE json(JObject(insert(EmptyMap, <<109, 101, 115, 115, 97, 103, 101>>,
                                      JString(<<72, 101, 108, 108, 111, 44, 32>> \o value_to_string(name.value) \o <<33>>))))

\* handler(request)
Apply(h, req) ==
    CASE h = "test_response" -> text(<<116, 101, 115, 116, 32, 114, 101, 115, 112, 111, 110, 115, 101>>)
      [] h = "blank" -> text(<<>>)
      [] h = "root" -> text(<<72, 101, 108, 108, 111, 44, 32>> \o unwrap_or(get(req.query, <<110, 97, 109, 101>>), <<87, 111, 114, 108, 100>>) \o <<33>>)
      [] h = "user" -> json(JObject(insert(insert(EmptyMap, <<110, 97, 109, 101>>, JString(<<77, 105, 103, 117, 101, 108, 32, 80, 105, 101, 100, 114, 97, 102, 105, 116, 97>>)),
                                           <<97, 103, 101>>, JNumber(20))))
      [] h = "hello" -> hello(req)

\* struct Route, the key of Router.routes
Route(path, methods) == [path |-> path, methods |-> methods]

\* Router::new
Router_new == <<>>

\* the place of a key among the entries, 0 if it has none
IndexOf(rs, key) ==
    IF \E i \in 1..Len(rs) : rs[i].route = key
    THEN CHOOSE i \in 1..Len(rs) : rs[i].route = key
    ELSE 0

\* HashMap::insert on the routes: every table the call can leave.  A key already
\* present keeps its place and gets the new handler; a new key falls wherever its
\* hash puts it among the others.
r_match(rs, methods, path, handler) ==
    LET key == Route(path, methods)
        entry == [route |-> key, handler |-> handler]
        i == IndexOf(rs, key)
    IN  IF i > 0 THEN {[rs EXCEPT ![i] = entry]}
        ELSE {SubSeq(rs, 1, k) \o <<entry>> \o SubSeq(rs, k + 1, Len(rs)) : k \in 0..Len(rs)}

\* contains(&request.method)
contains(methods, m) == \E i \in 1..Len(methods) : methods[i] = m

\* the filter of line 144
path_matches(route, req) == route.path = req.path

\* the find of line 152, comparing the first method of the route only
method_matches_first_only(route, req) == route.methods[1] = req.method

\* the find of line 152
method_matches(route, req) == contains(route.methods, req.method)

\* flat_map(|(route, _)| route.methods.clone()).collect()
RECURSIVE flat_methods(_)
flat_methods(rs) ==
    IF rs = <<>> THEN <<>> ELSE Head(rs).route.methods \o flat_methods(Tail(rs))

\* Router::handle: the response, and the handlers it called
handle(rs, req) ==
    LET path_routes == SelectSeq(rs, LAMBDA e : path_matches(e.route, req))
        found == SelectSeq(path_routes, LAMBDA e : method_matches(e.route, req))
    IN  IF Len(path_routes) = 0 THEN [response |-> not_found, invoked |-> <<>>]
        ELSE IF found # <<>>
        THEN [response |-> Apply(found[1].handler, req), invoked |-> <<found[1].handler>>]
        ELSE [response |-> method_not_allowed(flat_methods(path_routes)), invoked |-> <<>>]

----------------------------------------------------------------------------
(* The router on its own: registrations and dispatches in any order         *)

\* how many registrations a run makes
MaxRegs == 2

\* the paths, handlers and method lists the registrations draw from
Paths == {<<47>>, <<47, 116, 101, 115, 116, 47, 112, 97, 116, 104>>}

RouterHandlers == {"test_response", "blank"}

MatchMethods == {<<"Get", "Put">>, <<"Put", "Get">>}

\* the requests given to Router::handle, built as the tests of router.rs build them
Requests ==
    {[method |-> m, path |-> p, query |-> EmptyMap, headers |-> EmptyMap, body |-> BodyNone] :
        m \in Method, p \in Paths}

\* what a registration leaves in the history l
Noted(l, methods, path, handler) ==
    [k \in DOMAIN l \cup {<<path, methods[i]>> : i \in 1..Len(methods)} |->
        IF k[1] = path /\ contains(methods, k[2]) THEN handler ELSE l[k]]

\* Router::match.  The table is built before the first dispatch (Server::run
\* borrows the server, and the tests register before they call handle).
Match(methods, path, handler) ==
    /\ regs < MaxRegs
    /\ ~request.some
    /\ routes' \in r_match(routes, methods, path, handler)
    /\ regs' = regs + 1
    /\ latest' = Noted(latest, methods, path, handler)
    /\ UNCHANGED <<request, response, invoked, serverVars, parserVars>>

\* Router::get, Router::post, Router::put, Router::delete
Get(path, handler) == Match(<<"Get">>, path, handler)

Post(path, handler) == Match(<<"Post">>, path, handler)

Put(path, handler) == Match(<<"Put">>, path, handler)

Delete(path, handler) == Match(<<"Delete">>, path, handler)

\* Router::handle on one request
Handle(req) ==
    /\ request' = Some(req)
    /\ response' = handle(routes, req).response
    /\ invoked' = handle(routes, req).invoked
    /\ UNCHANGED <<routes, regs, latest, serverVars, parserVars>>

RouterInit ==
    /\ routes = Router_new
    /\ regs = 0
    /\ latest = EmptyMap
    /\ request = None
    /\ response = None
    /\ invoked = <<>>
    /\ listener = "Accepting"
    /\ acceptErrs = 0
    /\ conns = <<>>
    /\ sends = 0
    /\ buf = <<>>
    /\ parsed = None

RouterNext ==
    \/ \E p \in Paths, h \in RouterHandlers : Get(p, h)
    \/ \E p \in Paths, h \in RouterHandlers : Post(p, h)
    \/ \E p \in Paths, h \in RouterHandlers : Put(p, h)
    \/ \E p \in Paths, h \in RouterHandlers : Delete(p, h)
    \/ \E ms \in MatchMethods, p \in Paths, h \in RouterHandlers : Match(ms, p, h)
    \/ \E r \in Requests : Handle(r)

SpecRouter == RouterInit /\ [][RouterNext]_vars

----------------------------------------------------------------------------
(* server.rs: Server::run and Server::handle_connection                    *)

\* how many connections clients open, how many chunks they send over all of
\* them, and how many accepts fail
MaxConns == 2

MaxSends == 2

MaxAcceptErrs == 1

Conns == 1..MaxConns

\* main.rs, lines 15-49: the routes of the server, in the order registered
MainRegistrations ==
    << [methods |-> <<"Get">>, path |-> <<47>>, handler |-> "root"],
       [methods |-> <<"Get">>, path |-> <<47, 97, 112, 105, 47, 117, 115, 101, 114>>, handler |-> "user"],
       [methods |-> <<"Post">>, path |-> <<47, 97, 112, 105, 47, 104, 101, 108, 108, 111>>, handler |-> "hello"] >>

\* every table a sequence of registrations can leave, and the history it leaves
RECURSIVE Tables(_), History(_)
Tables(registrations) ==
    IF registrations = <<>> THEN {Router_new}
    ELSE LET r == registrations[Len(registrations)]
         IN  UNION {r_match(t, r.methods, r.path, r.handler) :
                        t \in Tables(SubSeq(registrations, 1, Len(registrations) - 1))}

History(registrations) ==
    IF registrations = <<>> THEN EmptyMap
    ELSE LET r == registrations[Len(registrations)]
         IN  Noted(History(SubSeq(registrations, 1, Len(registrations) - 1)), r.methods, r.path, r.handler)

(* What clients send.  One read of the server delivers one chunk. *)

\* the request of the end-to-end test
ChunkGetRoot == <<71, 69, 84, 32, 47, 32, 72, 84, 84, 80, 47, 49, 46, 49, 13, 10, 13, 10>>

ChunkPostJson == <<80, 79, 83, 84, 32, 47, 97, 112, 105, 47, 104, 101, 108, 108, 111, 32, 72, 84, 84, 80, 47, 49, 46, 49, 13, 10, 67, 111, 110, 116, 101, 110, 116, 45, 84, 121, 112, 101, 58, 32, 97, 112, 112, 108, 105, 99, 97, 116, 105, 111, 110, 47, 106, 115, 111, 110, 13, 10, 67, 111, 110, 116, 101, 110, 116, 45, 76, 101, 110, 103, 116, 104, 58, 32, 49, 52, 13, 10, 13, 10, 123, 34, 110, 97, 109, 101, 34, 58, 34, 66, 111, 98, 34, 125>>

\* application/json declared, the body is not JSON
ChunkPostBadJson == <<80, 79, 83, 84, 32, 47, 97, 112, 105, 47, 104, 101, 108, 108, 111, 32, 72, 84, 84, 80, 47, 49, 46, 49, 13, 10, 67, 111, 110, 116, 101, 110, 116, 45, 84, 121, 112, 101, 58, 32, 97, 112, 112, 108, 105, 99, 97, 116, 105, 111, 110, 47, 106, 115, 111, 110, 13, 10, 67, 111, 110, 116, 101, 110, 116, 45, 76, 101, 110, 103, 116, 104, 58, 32, 53, 13, 10, 13, 10, 123, 34, 97, 34, 58>>

\* a method the server does not know
ChunkPatch == <<80, 65, 84, 67, 72, 32, 47, 32, 72, 84, 84, 80, 47, 49, 46, 49, 13, 10, 13, 10>>

\* a header line without ':'
ChunkBadHeader == <<71, 69, 84, 32, 47, 32, 72, 84, 84, 80, 47, 49, 46, 49, 13, 10, 72, 111, 115, 116, 13, 10, 13, 10>>

\* a request line without a URI
ChunkBadRequestLine == <<71, 69, 84, 13, 10, 13, 10>>

\* no route on the path
ChunkGetMissing == <<71, 69, 84, 32, 47, 109, 105, 115, 115, 105, 110, 103, 32, 72, 84, 84, 80, 47, 49, 46, 49, 13, 10, 13, 10>>

Chunks ==
    {ChunkGetRoot, ChunkPostJson, ChunkPostBadJson, ChunkPatch, ChunkBadHeader,
     ChunkBadRequestLine, ChunkGetMissing}

\* what a read delivers once the client has closed: 0 bytes
EndOfStream == <<>>

\* try_from on the buffer of each read: the chunk, or nothing (a read of 0 bytes)
ParseOf == [d \in Chunks \cup {EndOfStream} |-> try_from(Buffer(d))]

\* a connection nobody has opened yet
NoConn ==
    [pc |-> "Unaccepted", inbox |-> <<>>, data |-> None, response |-> None,
     sent |-> <<>>, wshut |-> FALSE, reads |-> 0, result |-> "Running"]

\* the task run in the accept loop itself instead of spawned: what ends it ends the loop
after_task_inline(l, result) == IF result = "Ok" THEN l ELSE "Stopped"

\* server.rs, lines 72-74: the task is spawned, and what ends it (a panic, the
\* unwrap of an Err) stays inside it; the accept loop goes on
after_task(l, result) == l

\* server.rs, lines 76-78: a failed accept is printed, and the loop goes on
after_accept_error(l) == l

\* the Err of try_from returned with `?` instead of breaking the loop
after_parse_err_returned(outcome) ==
    CASE outcome.tag = "Ok" -> [pc |-> "Write", result |-> "Running"]
      [] outcome.tag = "Err" -> [pc |-> "Ended", result |-> "Err"]
      [] outcome.tag = "Panic" -> [pc |-> "Ended", result |-> "Panic"]

\* the loop reading on after a Request, its response not yet written
after_parse_reads_on(outcome) ==
    CASE outcome.tag = "Ok" -> [pc |-> "Read", result |-> "Running"]
      [] outcome.tag = "Err" -> [pc |-> "Ended", result |-> "Ok"]
      [] outcome.tag = "Panic" -> [pc |-> "Ended", result |-> "Panic"]

\* where the loop of handle_connection stands after try_from: Err breaks the loop
\* and the task returns Ok(()); a panic ends the task; a Request goes on to the write
after_parse(outcome) ==
    CASE outcome.tag = "Ok" -> [pc |-> "Write", result |-> "Running"]
      [] outcome.tag = "Err" -> [pc |-> "Ended", result |-> "Ok"]
      [] outcome.tag = "Panic" -> [pc |-> "Ended", result |-> "Panic"]

\* after write_all: the shutdown; after the shutdown: the next read
after_write == "Shutdown"

after_shutdown == "Read"

\* line 66, Ok: the connection is handed to a spawned task (connections are
\* numbered in the order accepted)
Accept(c) ==
    /\ listener = "Accepting"
    /\ conns[c].pc = "Unaccepted"
    /\ \A d \in Conns : d < c => conns[d].pc # "Unaccepted"
    /\ conns' = [conns EXCEPT ![c].pc = "Read"]
    /\ UNCHANGED <<listener, acceptErrs, sends, routerVars, parserVars>>

\* line 66, Err
AcceptError ==
    /\ listener = "Accepting"
    /\ acceptErrs < MaxAcceptErrs
    /\ acceptErrs' = acceptErrs + 1
    /\ listener' = after_accept_error(listener)
    /\ UNCHANGED <<conns, sends, routerVars, parserVars>>

\* a client sends a chunk on an open connection
ClientSend(c, chunk) ==
    /\ conns[c].pc \notin {"Unaccepted", "Ended"}
    /\ conns[c].inbox = <<>>
    /\ sends < MaxSends
    /\ sends' = sends + 1
    /\ conns' = [conns EXCEPT ![c].inbox = <<chunk>>]
    /\ UNCHANGED <<listener, acceptErrs, routerVars, parserVars>>

\* a client closes its side of the connection: the next read delivers 0 bytes
ClientClose(c) ==
    /\ conns[c].pc \notin {"Unaccepted", "Ended"}
    /\ conns[c].inbox = <<>>
    /\ conns' = [conns EXCEPT ![c].inbox = <<EndOfStream>>]
    /\ UNCHANGED <<listener, acceptErrs, sends, routerVars, parserVars>>

\* lines 87-89: what a read leaves of the connection: the loop's next step, and
\* the response of the router to a parsed request
after_read(conn, data, outcome, next) ==
    [conn EXCEPT !.inbox = <<>>,
                 !.data = Some(data),
                 !.pc = next.pc,
                 !.result = next.result,
                 !.reads = IF outcome.tag = "Ok" THEN @ + 1 ELSE @,
                 !.response = IF outcome.tag = "Ok"
                              THEN Some(handle(routes, outcome.request).response)
                              ELSE None]

\* lines 85-89: one read into a fresh buffer, try_from, and the dispatch.  The
\* read waits for the chunk in flight, or for the end of the stream.
ReadData(c, data) ==
    /\ conns' = [conns EXCEPT ![c] = after_read(@, data, ParseOf[data], after_parse(ParseOf[data]))]
    /\ listener' = IF conns'[c].pc = "Ended" THEN after_task(listener, conns'[c].result) ELSE listener

Read(c) ==
    /\ conns[c].pc = "Read"
    /\ conns[c].inbox # <<>>
    /\ ReadData(c, Head(conns[c].inbox))
    /\ UNCHANGED <<acceptErrs, sends, routerVars, parserVars>>

\* line 91: write_all of the serialized response.  It fails once the write
\* direction has been shut down.
Write(c) ==
    /\ conns[c].pc = "Write"
    /\ IF conns[c].wshut
       THEN /\ conns' = [conns EXCEPT ![c].pc = "Ended", ![c].result = "Err", ![c].response = None]
            /\ listener' = after_task(listener, "Err")
       ELSE /\ \E order \in Orders(conns[c].response.value.headers) :
                  conns' = [conns EXCEPT ![c].pc = after_write,
                                         ![c].sent = Append(@, to_string(conns[c].response.value, order)),
                                         ![c].response = None]
            /\ UNCHANGED listener
    /\ UNCHANGED <<acceptErrs, sends, routerVars, parserVars>>

\* line 92 without its effect on the socket: the write direction stays open
Shutdown_write_stays_open(c) ==
    /\ conns[c].pc = "Shutdown"
    /\ conns' = [conns EXCEPT ![c].pc = after_shutdown]
    /\ UNCHANGED <<listener, acceptErrs, sends, routerVars, parserVars>>

\* line 92: shutdown of the write direction
Shutdown(c) ==
    /\ conns[c].pc = "Shutdown"
    /\ conns' = [conns EXCEPT ![c].pc = after_shutdown, ![c].wshut = TRUE]
    /\ UNCHANGED <<listener, acceptErrs, sends, routerVars, parserVars>>

\* lines 86, 91, 92: the `?` on a failed read, write or shutdown returns the Err,
\* which the task's unwrap turns into its panic
IoError(c) ==
    /\ conns[c].pc \in {"Read", "Write", "Shutdown"}
    /\ conns' = [conns EXCEPT ![c].pc = "Ended", ![c].result = "Err", ![c].response = None]
    /\ listener' = after_task(listener, "Err")
    /\ UNCHANGED <<acceptErrs, sends, routerVars, parserVars>>

\* the server of main.rs, its routes registered, at the call of run.  No two of
\* its routes share a path, so the order of the table decides nothing: one is taken.
Init ==
    /\ routes = CHOOSE t \in Tables(MainRegistrations) : TRUE
    /\ regs = Len(MainRegistrations)
    /\ latest = History(MainRegistrations)
    /\ request = None
    /\ response = None
    /\ invoked = <<>>
    /\ listener = "Accepting"
    /\ acceptErrs = 0
    /\ conns = [c \in Conns |-> NoConn]
    /\ sends = 0
    /\ buf = <<>>
    /\ parsed = None

Next ==
    \/ \E c \in Conns : Accept(c)
    \/ AcceptError
    \/ \E c \in Conns, chunk \in Chunks : ClientSend(c, chunk)
    \/ \E c \in Conns : ClientClose(c)
    \/ \E c \in Conns : Read(c)
    \/ \E c \in Conns : Write(c)
    \/ \E c \in Conns : Shutdown(c)
    \/ \E c \in Conns : IoError(c)

Spec == Init /\ [][Next]_vars

----------------------------------------------------------------------------
(* The parser on its own: try_from on one buffer                           *)

\* how many header lines an input holds
MaxHeaderLines == 2

RequestLines ==
    {<<80, 79, 83, 84, 32, 47, 97, 112, 105, 47, 104, 101, 108, 108, 111, 32, 72, 84, 84, 80, 47, 49, 46, 49, 13, 10>>, <<71, 69, 84, 32, 47, 97, 63, 120, 61, 49, 38, 121, 61, 50, 32, 72, 84, 84, 80, 47, 49, 46, 49, 13, 10>>, <<80, 85, 84, 32, 47, 32, 72, 84, 84, 80, 47, 49, 46, 49, 13, 10>>,
     <<71, 69, 84, 32, 47, 97, 63, 107, 61, 97, 61, 98, 32, 72, 84, 84, 80, 47, 49, 46, 49, 13, 10>>, <<71, 69, 84, 32, 47, 97, 63, 120, 61, 49, 38, 9, 120, 9, 61, 9, 50, 9, 32, 72, 84, 84, 80, 47, 49, 46, 49, 13, 10>>}

HeaderLines ==
    {<<72, 111, 115, 116, 58, 32, 104, 13, 10>>, <<67, 111, 110, 116, 101, 110, 116, 45, 84, 121, 112, 101, 58, 32, 97, 112, 112, 108, 105, 99, 97, 116, 105, 111, 110, 47, 106, 115, 111, 110, 13, 10>>, <<67, 111, 110, 116, 101, 110, 116, 45, 84, 121, 112, 101, 58, 32, 116, 101, 120, 116, 47, 112, 108, 97, 105, 110, 13, 10>>,
     <<67, 111, 110, 116, 101, 110, 116, 45, 76, 101, 110, 103, 116, 104, 58, 32, 49, 52, 13, 10>>, <<67, 111, 110, 116, 101, 110, 116, 45, 76, 101, 110, 103, 116, 104, 58, 32, 53, 13, 10>>, <<67, 111, 110, 116, 101, 110, 116, 45, 76, 101, 110, 103, 116, 104, 58, 32, 48, 13, 10>>,
     <<67, 111, 110, 116, 101, 110, 116, 45, 76, 101, 110, 103, 116, 104, 58, 32, 50, 48, 48, 48, 13, 10>>, <<99, 111, 110, 116, 101, 110, 116, 45, 108, 101, 110, 103, 116, 104, 58, 32, 49, 52, 13, 10>>, <<99, 111, 110, 116, 101, 110, 116, 45, 116, 121, 112, 101, 58, 32, 97, 112, 112, 108, 105, 99, 97, 116, 105, 111, 110, 47, 106, 115, 111, 110, 13, 10>>}

\* what follows the blank line
Bodies == {<<123, 34, 110, 97, 109, 101, 34, 58, 34, 66, 111, 98, 34, 125>>, <<104, 101, 108, 108, 111>>, <<32, 104, 105, 32, 32>>, <<>>}

\* the header blocks: up to MaxHeaderLines lines, no line twice
RECURSIVE Blocks(_)
Blocks(n) ==
    IF n = 0 THEN {<<>>}
    ELSE Blocks(n - 1) \cup
         {b \o l : b \in {x \in Blocks(n - 1) : TRUE}, l \in HeaderLines}

NoLineTwice(block) ==
    \A l \in HeaderLines :
        Cardinality({i \in 1..Len(block) : i + Len(l) - 1 <= Len(block) /\ SubSeq(block, i, i + Len(l) - 1) = l}) <= 1

\* the requests given to try_from: a request line, a header block, the blank line, a body
ParseInputs ==
    {r \o h \o CRLF \o b : r \in RequestLines, h \in {x \in Blocks(MaxHeaderLines) : NoLineTwice(x)}, b \in Bodies}

\* Request::try_from(&buf)
Parse ==
    /\ ~parsed.some
    /\ parsed' = Some(try_from(buf))
    /\ UNCHANGED <<buf, routerVars, serverVars>>

ParseInit ==
    /\ buf \in {Buffer(d) : d \in ParseInputs}
    /\ parsed = None
    /\ routes = Router_new
    /\ regs = 0
    /\ latest = EmptyMap
    /\ request = None
    /\ response = None
    /\ invoked = <<>>
    /\ listener = "Accepting"
    /\ acceptErrs = 0
    /\ conns = <<>>
    /\ sends = 0

ParseNext == Parse

SpecParse == ParseInit /\ [][ParseNext]_vars

----------------------------------------------------------------------------
(* Claims about the router (SpecRouter)                                    *)

\* the entries whose path is the request's, and those among them that allow its method
OnPath(req) == {i \in 1..Len(routes) : routes[i].route.path = req.path}

Allowing(req) ==
    {i \in OnPath(req) : \E k \in 1..Len(routes[i].route.methods) : routes[i].route.methods[k] = req.method}

\* C1: a request whose path is the path of no registered route is answered 404
\* with the body Text "Not Found", and no handler is called.
C1_UnknownPathIsNotFound ==
    (request.some /\ OnPath(request.value) = {}) =>
        /\ response.status_code = "NotFound"
        /\ response.body = BodyText(<<78, 111, 116, 32, 70, 111, 117, 110, 100>>)
        /\ invoked = <<>>

\* C1's case: a router that has routes, none on the path of the request dispatched
C1_Witness ==
    /\ request.some
    /\ routes # <<>>
    /\ OnPath(request.value) = {}
    /\ response.status_code = "NotFound"

\* the names of a set of methods, each once, in lexicographic order
SortedNames(ms) ==
    LET names == {method_to_string(m) : m \in ms}
        n == Cardinality(names)
    IN  CHOOSE v \in [1..n -> names] : \A i, j \in 1..n : i < j => StrLess(v[i], v[j])

\* the methods of every route registered on the path of the request
AllowedOn(req) ==
    {m \in Method : \E i \in OnPath(req) : \E k \in 1..Len(routes[i].route.methods) :
                        routes[i].route.methods[k] = m}

\* C2: a request on a registered path whose method no route of that path allows is
\* answered 405 "Method Not Allowed" with an Allow header that is the union of the
\* methods of the routes on that path, sorted and joined with ", "; no handler is called.
C2_AllowIsTheUnion ==
    LET req == request.value
        names == SortedNames(AllowedOn(req))
    IN  (request.some /\ OnPath(req) # {} /\ Allowing(req) = {}) =>
            /\ response.status_code = "MethodNotAllowed"
            /\ response.body = BodyText(<<77, 101, 116, 104, 111, 100, 32, 78, 111, 116, 32, 65, 108, 108, 111, 119, 101, 100>>)
            /\ <<65, 108, 108, 111, 119>> \in DOMAIN response.headers
            /\ response.headers[<<65, 108, 108, 111, 119>>] = join([i \in 1..Len(names) |-> names[i]], <<44, 32>>)
            /\ invoked = <<>>

\* C3: every dispatch yields one Response; when some route has the request's path
\* and allows its method, the handler of such a route is called exactly once and
\* its Response is returned as it is; otherwise the Response is the 404 or the 405
\* and no handler is called.
C3_DispatchReturnsHandlerResponse ==
    request.some =>
        LET req == request.value
        IN  IF Allowing(req) # {}
            THEN \E i \in Allowing(req) :
                    /\ invoked = <<routes[i].handler>>
                    /\ response = Apply(routes[i].handler, req)
            ELSE /\ invoked = <<>>
                 /\ response.status_code = (IF OnPath(req) = {} THEN "NotFound" ELSE "MethodNotAllowed")

\* C3's case: the request matched a route that lists several methods, on a path
\* that holds another route too, and that route's handler answered
C3_Witness ==
    /\ request.some
    /\ \E i \in Allowing(request.value) :
          /\ Len(routes[i].route.methods) > 1
          /\ routes[i].route.methods[1] # request.value.method
          /\ invoked = <<routes[i].handler>>
    /\ Cardinality(OnPath(request.value)) > 1
    /\ response.status_code = "Ok"

\* C4: the router holds one route per key, and a request for a registered
\* (path, method) pair is answered by the handler most recently registered for it.
C4_LastRegistrationAnswers ==
    /\ \A i, j \in 1..Len(routes) : routes[i].route = routes[j].route => i = j
    /\ \A p \in Paths, m \in Method :
          (request.some /\ request.value.path = p /\ request.value.method = m /\ <<p, m>> \in DOMAIN latest)
              => invoked = <<latest[<<p, m>>]>>

----------------------------------------------------------------------------
(* Claims about the server (Spec)                                          *)

\* what a client is to receive for each well-formed request to a route of the server
C5_Expected(chunk) ==
    CASE chunk = ChunkGetRoot -> <<72, 84, 84, 80, 47, 49, 46, 49, 32, 50, 48, 48, 32, 79, 75, 13, 10, 67, 111, 110, 116, 101, 110, 116, 45, 84, 121, 112, 101, 58, 32, 116, 101, 120, 116, 47, 112, 108, 97, 105, 110, 13, 10, 13, 10, 72, 101, 108, 108, 111, 44, 32, 87, 111, 114, 108, 100, 33>>
      [] chunk = ChunkPostJson ->
            <<72, 84, 84, 80, 47, 49, 46, 49, 32, 50, 48, 48, 32, 79, 75, 13, 10, 67, 111, 110, 116, 101, 110, 116, 45, 84, 121, 112, 101, 58, 32, 97, 112, 112, 108, 105, 99, 97, 116, 105, 111, 110, 47, 106, 115, 111, 110, 13, 10, 13, 10, 123, 34, 109, 101, 115, 115, 97, 103, 101, 34, 58, 34, 72, 101, 108, 108, 111, 44, 32, 92, 34, 66, 111, 98, 92, 34, 33, 34, 125>>

\* C5: a client that sends one well-formed request for a registered method and
\* path, arriving in one read, receives exactly the serialization of the handler's
\* Response: the status line, a line per header, a blank line, the body; GET "/"
\* is answered 200 with the body "Hello, World!".
C5_ClientReceivesTheSerialization ==
    \A c \in Conns :
        LET k == conns[c]
        IN  (k.data.some /\ k.data.value \in {ChunkGetRoot, ChunkPostJson} /\ k.reads = 1) =>
                /\ k.result # "Panic"
                /\ k.pc = "Write" =>
                      /\ k.sent = <<>>
                      /\ k.response.some
                      /\ \A order \in Orders(k.response.value.headers) :
                            to_string(k.response.value, order) = C5_Expected(k.data.value)
                /\ k.pc \in {"Shutdown", "Read"} => k.sent = <<C5_Expected(k.data.value)>>
                /\ k.pc = "Ended" => k.sent \in {<<>>, <<C5_Expected(k.data.value)>>}

\* C5's case: both requests answered, each on its connection
C5_Witness ==
    /\ conns[1].data = Some(ChunkGetRoot)
    /\ conns[1].sent = <<C5_Expected(ChunkGetRoot)>>
    /\ conns[2].data = Some(ChunkPostJson)
    /\ conns[2].sent = <<C5_Expected(ChunkPostJson)>>

\* C6: on one connection requests are sequential: the response to a request is
\* written before the read of the next begins, at most one request is outstanding;
\* connections are not ordered among themselves.
C6_RequestsAreSequential ==
    \A c \in Conns :
        LET k == conns[c]
        IN  /\ k.reads - Len(k.sent) \in {0, 1}
            /\ k.pc = "Read" => (k.reads = Len(k.sent) /\ ~k.response.some)
            /\ k.pc = "Write" => (k.reads = Len(k.sent) + 1 /\ k.response.some)
            /\ k.pc = "Shutdown" => k.reads = Len(k.sent)

\* C6's case: a second request read on a connection whose first was answered,
\* and a connection reading a second request while another has answered nothing
C6_Witness ==
    \E c \in Conns :
        /\ conns[c].reads = 2
        /\ Len(conns[c].sent) = 1
        /\ conns[c].pc = "Write"
        /\ \E d \in Conns : d # c /\ conns[d].pc = "Read" /\ conns[d].sent = <<>>

\* the requests with a method outside HEAD, GET, POST, PUT, DELETE, a header
\* line without ':', a request line without a URI
Malformed == {ChunkPatch, ChunkBadHeader, ChunkBadRequestLine}

\* the connection is answering, or has answered, its latest request with the 400
Emits400(k) ==
    \/ k.pc = "Write" /\ k.response = Some(invalid_request)
    \/ /\ k.pc \in {"Shutdown", "Read"}
       /\ k.sent # <<>>
       /\ \E order \in Orders(invalid_request.headers) :
             k.sent[Len(k.sent)] = to_string(invalid_request, order)
    \/ k.pc = "Ended" /\ k.result = "Err"

\* C7: a request with an unknown method, or a malformed request line or header
\* line, is a recoverable outcome: the task is not aborted, and the connection
\* emits the invalid_request response (400).
C7_MalformedIsRecoverable ==
    \A c \in Conns :
        LET k == conns[c]
        IN  (k.data.some /\ k.data.value \in Malformed) =>
                /\ k.result # "Panic"
                /\ Emits400(k)

\* C8: a request declaring application/json and a Content-Length whose body is
\* not well-formed JSON is a recoverable failure: the client receives a 400, and
\* the task does not crash.
C8_MalformedJsonIsRecoverable ==
    \A c \in Conns :
        LET k == conns[c]
        IN  (k.data.some /\ k.data.value = ChunkPostBadJson) =>
                /\ k.result # "Panic"
                /\ Emits400(k)

\* a connection whose task a failure has ended
Failed(k) == k.pc = "Ended" /\ k.result \in {"Panic", "Err"}

----------------------------------------------------------------------------
(* Claims about the parser (SpecParse)                                     *)

\* the first place of the buffer after the blank line that ends the headers
BlankLines(b) ==
    {i \in 1..(Len(b) - 3) : b[i] = CR /\ b[i + 1] = LF /\ b[i + 2] = CR /\ b[i + 3] = LF}

AfterBlankLine(b) == (CHOOSE i \in BlankLines(b) : \A j \in BlankLines(b) : i <= j) + 4

\* the body that N declared bytes and a content type select
Selected(bytes, content_type) ==
    IF content_type = Some(<<97, 112, 112, 108, 105, 99, 97, 116, 105, 111, 110, 47, 106, 115, 111, 110>>)
    THEN BodyJson(from_str(trim(from_utf8_lossy(bytes))).value)
    ELSE BodyText(trim(from_utf8_lossy(bytes)))

\* C10: with a Content-Length header of value N the body of the parsed request
\* is the N bytes right after the blank line that ends the headers, decoded and
\* trimmed: Body::Json of the parsed value under application/json, Body::Text
\* under any other or no Content-Type; with no Content-Length header it is Body::None.
C10_BodyIsSelected ==
    (parsed.some /\ parsed.value.tag = "Ok") =>
        LET req == parsed.value.request
            start == AfterBlankLine(buf)
        IN  IF <<67, 111, 110, 116, 101, 110, 116, 45, 76, 101, 110, 103, 116, 104>> \in DOMAIN req.headers
            THEN req.body = Selected(SubSeq(buf, start, start + parse_usize(req.headers[<<67, 111, 110, 116, 101, 110, 116, 45, 76, 101, 110, 103, 116, 104>>]) - 1),
                                     get(req.headers, <<67, 111, 110, 116, 101, 110, 116, 45, 84, 121, 112, 101>>))
            ELSE req.body = BodyNone

\* C10's case: 14 bytes of JSON declared after two header lines, parsed to the object
C10_Witness ==
    /\ parsed.some
    /\ parsed.value.tag = "Ok"
    /\ parsed.value.request.headers =
          insert(insert(EmptyMap, <<67, 111, 110, 116, 101, 110, 116, 45, 84, 121, 112, 101>>, <<97, 112, 112, 108, 105, 99, 97, 116, 105, 111, 110, 47, 106, 115, 111, 110>>), <<67, 111, 110, 116, 101, 110, 116, 45, 76, 101, 110, 103, 116, 104>>, <<49, 52>>)
    /\ parsed.value.request.body = BodyJson(JObject(insert(EmptyMap, <<110, 97, 109, 101>>, JString(<<66, 111, 98>>))))

----------------------------------------------------------------------------
(* Claims about the end of a connection (Spec)                             *)

\* C11: a read that leaves the first byte of the buffer zero (nothing read, the
\* peer closed) fails to parse with the "Empty request" error, and the loop ends
\* normally: the router is not called, no response is written, and the task
\* returns without an error.
C11_EmptyRequestEndsTheLoop ==
    /\ ParseOf[EndOfStream] = EmptyRequest
    /\ \A c \in Conns :
          LET k == conns[c]
          IN  k.data = Some(EndOfStream) =>
                  /\ k.pc = "Ended"
                  /\ k.result = "Ok"
                  /\ k.response = None
                  /\ Len(k.sent) = k.reads

\* C11's case: the peer closed after its request was answered, and the task returned
C11_Witness ==
    \E c \in Conns :
        /\ conns[c].data = Some(EndOfStream)
        /\ conns[c].reads = 1
        /\ Len(conns[c].sent) = 1
        /\ conns[c].result = "Ok"

----------------------------------------------------------------------------
(* Claims about the parser, continued (SpecParse)                          *)

\* the URI of the request in the buffer: the second word of its first line
UriOf(b) == split(split(b, LF)[1], SP)[2]

\* the pairs of a query string, each split on its first '=' only, both sides
\* trimmed, inserted in order
RECURSIVE FirstEqualsQuery(_, _)
FirstEqualsQuery(pairs, m) ==
    IF pairs = <<>> THEN m
    ELSE LET kv == splitn2(pairs[1], EQUALS)
         IN  FirstEqualsQuery(Tail(pairs), insert(m, trim(kv[1]), trim(kv[2])))

\* C12: when the URI holds a '?', the part after the first '?' is split on '&'
\* and each pair on its first '=' only (for "k=a=b" the value is "a=b"), both
\* sides trimmed, the pairs inserted in order so that a later key overwrites an
\* earlier one; the path is the part before the '?'.
C12_QuerySplitsOnFirstEquals ==
    (parsed.some /\ parsed.value.tag = "Ok") =>
        LET uri == splitn2(UriOf(buf), QMARK)
        IN  /\ parsed.value.request.path = trim(uri[1])
            /\ parsed.value.request.query =
                  IF Len(uri) = 2 THEN FirstEqualsQuery(split(trim(uri[2]), AMP), EmptyMap) ELSE EmptyMap

\* the Content-Length the header lines of the buffer declare, from line i on: the
\* value of the last line of that name before the blank line, n if there is none
RECURSIVE DeclaredLength(_, _, _)
DeclaredLength(lines, i, n) ==
    IF i > Len(lines) \/ lines[i] = <<CR>> THEN n
    ELSE LET h == splitn2(lines[i], COLON)
         IN  DeclaredLength(lines, i + 1,
                            IF Len(h) = 2 /\ trim(h[1]) = <<67, 111, 110, 116, 101, 110, 116, 45, 76, 101, 110, 103, 116, 104>> THEN parse_usize(trim(h[2])) ELSE n)

\* C13: a request whose headers and declared body exceed the 1024 bytes of the
\* buffer is truncated, not rejected and not fatal: when the offset of the body
\* plus the Content-Length is greater than 1024, parsing still returns a Request,
\* its body cut at the end of the buffer, and the task does not abort.
C13_OversizeIsTruncated ==
    parsed.some =>
        LET n == DeclaredLength(split(buf, LF), 2, -1)
            start == AfterBlankLine(buf)
        IN  (n >= 0 /\ (start - 1) + n > BufSize) =>
                /\ parsed.value.tag = "Ok"
                /\ parsed.value.request.body =
                      Selected(SubSeq(buf, start, BufSize), get(parsed.value.request.headers, <<67, 111, 110, 116, 101, 110, 116, 45, 84, 121, 112, 101>>))

----------------------------------------------------------------------------
(* Claims about the router, continued (SpecRouter)                         *)

\* the tables that hold the entries of rs in another iteration order
Reordered(rs) ==
    {[i \in 1..Len(rs) |-> rs[f[i]]] :
        f \in {g \in [1..Len(rs) -> 1..Len(rs)] : \A i, j \in 1..Len(rs) : g[i] = g[j] => i = j}}

\* C14: dispatch is deterministic: for the same registrations and the same
\* request, two runs of Router::handle select the same handler and return the
\* same Response, also when routes on one path overlap in their methods and
\* more than one matches the request.
C14_DispatchIsDeterministic ==
    request.some =>
        \A t \in Reordered(routes) :
            /\ handle(t, request.value).invoked = invoked
            /\ handle(t, request.value).response = response

----------------------------------------------------------------------------
(* Claims about the responses of a connection (Spec)                       *)

\* C15: on one connection at most one response is ever delivered: the write
\* direction is shut down right after the first response, so the response to a
\* second request read and parsed on the connection cannot be written: the write
\* fails, and the task ends with an error instead of going back to the read.
C15_OneResponsePerConnection ==
    \A c \in Conns :
        LET k == conns[c]
        IN  /\ Len(k.sent) <= 1
            /\ k.wshut => Len(k.sent) = 1
            /\ (k.pc \in {"Read", "Write"} /\ Len(k.sent) = 1) => k.wshut
            /\ k.reads >= 2 =>
                  /\ k.reads = 2
                  /\ k.pc \in {"Write", "Ended"}
                  /\ k.pc = "Ended" => k.result = "Err"

\* C15's case: a second request was parsed after the first response, its write
\* failed, and the task ended with the error
C15_Witness ==
    \E c \in Conns :
        /\ conns[c].reads = 2
        /\ Len(conns[c].sent) = 1
        /\ conns[c].pc = "Ended"
        /\ conns[c].result = "Err"

----------------------------------------------------------------------------
(* Claims about the names of headers (SpecParse)                           *)

\* the buffer holds a header line of this name, spelled so
NamesOf(lines) == {splitn2(lines[i], COLON)[1] : i \in 2..Len(lines)}

HasName(b, name) == name \in NamesOf(split(b, LF))

====
